---- MODULE Spec2Model ----
(***************************************************************************)
(* Model of the leave bot: the message handler with its deduplication map, *)
(* the interpretation gateway with its date validation, and the store.     *)
(*                                                                         *)
(* Instants are counted in half hours ("ticks") since 1970-01-01T00:00Z,   *)
(* the finest grain at which the Asia/Kolkata offset (+05:30) is exact.    *)
(* A time.Time is a record [t |-> instant, off |-> zone offset in ticks].  *)
(***************************************************************************)
EXTENDS Integers, Sequences, FiniteSets, TLC

\* ------------------------------------------------------------------ bounds
MaxWorkers == 2      \* goroutines started by the event loop
MaxEvents == 2       \* distinct message timestamps delivered
MaxDayShift == 1     \* days after BaseDay on which the isolated call may be made
MaxRows == 3         \* rows in the store when an analytics command is handled
MaxRequests == 2     \* requests sent to /api/leave, one after the other

\* --------------------------------------------------------------- time.Time
TicksPerHour == 2
TicksPerDay == 24 * TicksPerHour
\* time.LoadLocation("Asia/Kolkata"): UTC+05:30, no daylight saving
IstOffset == 11
UtcOffset == 0
MaxAdvanceDays == 30

\* days since 1970-01-01 of the proleptic Gregorian date y-m-d; d may lie
\* outside the month, as time.Date normalises it
DaysFromCivil(y, m, d) ==
    LET yy  == IF m <= 2 THEN y - 1 ELSE y
        era == yy \div 400
        yoe == yy - era * 400
        mp  == IF m > 2 THEN m - 3 ELSE m + 9
        doy == (153 * mp + 2) \div 5 + d - 1
        doe == yoe * 365 + yoe \div 4 - yoe \div 100 + doy
    IN  era * 146097 + doe - 719468

\* the date <<year, month, day>> of a day number
CivilFromDays(z) ==
    LET zz  == z + 719468
        era == zz \div 146097
        doe == zz - era * 146097
        yoe == (doe - doe \div 1460 + doe \div 36524 - doe \div 146096) \div 365
        doy == doe - (365 * yoe + yoe \div 4 - yoe \div 100)
        mp  == (5 * doy + 2) \div 153
        d   == doy - (153 * mp + 2) \div 5 + 1
        m   == IF mp < 10 THEN mp + 3 ELSE mp - 9
        y   == yoe + era * 400
    IN  <<IF m <= 2 THEN y + 1 ELSE y, m, d>>

\* t.In(loc): same instant, shown in another zone
In(tm, off) == [t |-> tm.t, off |-> off]

\* the date in UTC, whatever zone the value is in
DateOfUtc(tm) == CivilFromDays(tm.t \div TicksPerDay)
\* t.Year(), t.Month(), t.Day(): the date on the wall clock of the value's zone
DateOf(tm) == CivilFromDays((tm.t + tm.off) \div TicksPerDay)

\* time.Date(y, m, d, 0, 0, 0, 0, loc)
DateAt(y, m, d, off) == [t |-> DaysFromCivil(y, m, d) * TicksPerDay - off, off |-> off]

\* t.AddDate(0, 0, days)
AddDays(tm, days) ==
    LET ymd == DateOf(tm)
        tod == (tm.t + tm.off) % TicksPerDay
    IN  [t |-> DaysFromCivil(ymd[1], ymd[2], ymd[3] + days) * TicksPerDay + tod - tm.off,
         off |-> tm.off]

Before(a, b) == a.t < b.t
AfterOrEqual(a, b) == a.t >= b.t
After(a, b) == a.t > b.t

MonthName ==
    <<"January", "February", "March", "April", "May", "June", "July",
      "August", "September", "October", "November", "December">>

\* t.Format("January 2, 2006")
FormatLong(tm) ==
    LET ymd == DateOf(tm)
    IN  [month |-> MonthName[ymd[2]], day |-> ymd[3], year |-> ymd[1]]

\* the zero time.Time, 0001-01-01T00:00Z
ZeroTime == [t |-> DaysFromCivil(1, 1, 1) * TicksPerDay, off |-> UtcOffset]

\* ----------------------------------------------------------- LeaveResponse
\* an error text with the values formatted into it
Msg(text, args) == [text |-> text, args |-> args]
NoError == Msg("", {})
PastDateError == Msg("Cannot request leave for past dates", {})
TooFarError(maxDate) ==
    Msg("Cannot request leave more than 30 days in advance (maximum allowed date is %s)",
        {FormatLong(maxDate)})
EndBeforeStartError == Msg("End time must be after start time", {})

LeaveTypes == {"WFH", "FULL_DAY", "HALF_DAY", "LATE_ARRIVAL", "EARLY_DEPARTURE"}

\* a JSON object of the service: each field is {} when absent, {v} when present
Field(f, zero) == IF f = {} THEN zero ELSE CHOOSE v \in f : TRUE

\* a decoder that fills in a leave type when the reply has none
UnmarshalDefaulted(obj) ==
    [IsValid   |-> Field(obj.is_valid, FALSE),
     StartTime |-> Field(obj.start_time, ZeroTime),
     EndTime   |-> Field(obj.end_time, ZeroTime),
     Duration  |-> Field(obj.duration, ""),
     Reason    |-> Field(obj.reason, ""),
     LeaveType |-> IF Field(obj.leave_type, "") = "" THEN "FULL_DAY" ELSE Field(obj.leave_type, ""),
     Error     |-> Field(obj.error, NoError)]
\* json.Unmarshal into LeaveResponse: absent fields keep their zero value
Unmarshal(obj) ==
    [IsValid   |-> Field(obj.is_valid, FALSE),
     StartTime |-> Field(obj.start_time, ZeroTime),
     EndTime   |-> Field(obj.end_time, ZeroTime),
     Duration  |-> Field(obj.duration, ""),
     Reason    |-> Field(obj.reason, ""),
     LeaveType |-> Field(obj.leave_type, ""),
     Error     |-> Field(obj.error, NoError)]

\* a (*LeaveResponse, error) pair: resp is <<>> for nil
Ret(resp, err) == [resp |-> resp, err |-> err]

\* date rules that look at the end of the leave before they look at its start
ValidateEndFirst(leaveResp, now) ==
    LET startTimeIST == In(leaveResp.StartTime, IstOffset)
        endTimeIST   == In(leaveResp.EndTime, IstOffset)
        nowIST       == In(now, IstOffset)
        sd           == DateOf(startTimeIST)
        nd           == DateOf(nowIST)
        startDate    == DateAt(sd[1], sd[2], sd[3], IstOffset)
        todayDate    == DateAt(nd[1], nd[2], nd[3], IstOffset)
        maxDate      == AddDays(todayDate, MaxAdvanceDays)
    IN  IF Before(endTimeIST, startTimeIST)
        THEN [leaveResp EXCEPT !.IsValid = FALSE, !.Error = EndBeforeStartError]
        ELSE IF Before(startDate, todayDate)
        THEN [leaveResp EXCEPT !.IsValid = FALSE, !.Error = PastDateError]
        ELSE IF After(startDate, maxDate)
        THEN [leaveResp EXCEPT !.IsValid = FALSE, !.Error = TooFarError(maxDate)]
        ELSE [leaveResp EXCEPT !.StartTime = startTimeIST, !.EndTime = endTimeIST]
\* the date rules of ParseLeaveRequest, applied to a valid reply
Validate(leaveResp, now) ==
    LET startTimeIST == In(leaveResp.StartTime, IstOffset)
        endTimeIST   == In(leaveResp.EndTime, IstOffset)
        nowIST       == In(now, IstOffset)
        sd           == DateOf(startTimeIST)
        nd           == DateOf(nowIST)
        startDate    == DateAt(sd[1], sd[2], sd[3], IstOffset)
        todayDate    == DateAt(nd[1], nd[2], nd[3], IstOffset)
        maxDate      == AddDays(todayDate, MaxAdvanceDays)
    IN  IF Before(startDate, todayDate)
        THEN [leaveResp EXCEPT !.IsValid = FALSE, !.Error = PastDateError]
        ELSE IF After(startDate, maxDate)
        THEN [leaveResp EXCEPT !.IsValid = FALSE, !.Error = TooFarError(maxDate)]
        ELSE IF Before(endTimeIST, startTimeIST)
        THEN [leaveResp EXCEPT !.IsValid = FALSE, !.Error = EndBeforeStartError]
        ELSE [leaveResp EXCEPT !.StartTime = startTimeIST, !.EndTime = endTimeIST]

\* a gateway that runs the date rules on every reply, valid or not
ParseLeaveRequestStrict(reply, now) ==
    IF reply.apiErr THEN Ret(<<>>, "OpenAI API error")
    ELSE IF reply.malformed THEN Ret(<<>>, "JSON parse error")
    ELSE LET leaveResp == Unmarshal(reply.obj)
         IN  IF leaveResp.IsValid /\ leaveResp.LeaveType = ""
             THEN Ret(<<>>, "leave_type is required for valid requests")
             ELSE Ret(<<Validate(leaveResp, now)>>, "")
\* ParseLeaveRequest after the service has answered; now is the instant read
\* at the start of the call
ParseLeaveRequest(reply, now) ==
    IF reply.apiErr THEN Ret(<<>>, "OpenAI API error")
    ELSE IF reply.malformed THEN Ret(<<>>, "JSON parse error")
    ELSE LET leaveResp == Unmarshal(reply.obj)
         IN  IF ~leaveResp.IsValid THEN Ret(<<leaveResp>>, "")
             ELSE IF leaveResp.LeaveType = ""
             THEN Ret(<<>>, "leave_type is required for valid requests")
             ELSE Ret(<<Validate(leaveResp, now)>>, "")

\* ----------------------------------------------------------- QueryResponse
\* a date string of the classifier: <<>> for "", <<y, m, d>> for "y-m-d"
\* json.Unmarshal into QueryResponse: absent fields keep their zero value
QueryUnmarshal(obj) ==
    [QueryType  |-> Field(obj.query_type, ""),
     StartDate  |-> Field(obj.start_date, <<>>),
     EndDate    |-> Field(obj.end_date, <<>>),
     Username   |-> Field(obj.username, ""),
     Count      |-> Field(obj.count, ""),
     Error      |-> Field(obj.error, ""),
     Suggestion |-> Field(obj.suggestion, "")]

\* a classifier that hands the intent back whatever its error field says
ParseQueryLenient(reply, query) ==
    IF reply.apiErr THEN Ret(<<>>, Msg("OpenAI API error", {}))
    ELSE IF reply.malformed THEN Ret(<<>>, Msg("JSON parse error", {}))
    ELSE Ret(<<QueryUnmarshal(reply.obj)>>, NoError)
\* ParseQuery after the service has answered
ParseQuery(reply, query) ==
    IF reply.apiErr THEN Ret(<<>>, Msg("OpenAI API error", {}))
    ELSE IF reply.malformed THEN Ret(<<>>, Msg("JSON parse error", {}))
    ELSE LET queryResp == QueryUnmarshal(reply.obj)
         IN  IF queryResp.Error # ""
             THEN IF queryResp.Suggestion # ""
                  THEN Ret(<<>>, Msg("Query error: %s. Suggested fix: %s",
                                     {queryResp.Error, queryResp.Suggestion}))
                  ELSE Ret(<<>>, Msg("Query error: %s", {queryResp.Error}))
             ELSE IF queryResp.Count = "0"
             THEN Ret(<<queryResp>>,
                      Msg("No results found for the query: %s. Please try a different query.",
                          {query}))
             ELSE Ret(<<queryResp>>, NoError)

\* a parser that carries a day beyond the end of its month into the next month
ParseDateNormalising(s) ==
    IF Len(s) = 3 /\ s[2] \in 1..12 /\ s[3] >= 1
    THEN [ok |-> TRUE, time |-> DateAt(s[1], s[2], s[3], UtcOffset)]
    ELSE [ok |-> FALSE, time |-> ZeroTime]
\* time.Parse("2006-01-02", s): midnight UTC of the date, or an error
ParseDate(s) ==
    IF /\ Len(s) = 3
       /\ s[2] \in 1..12 /\ s[3] >= 1
       /\ CivilFromDays(DaysFromCivil(s[1], s[2], s[3])) = s
    THEN [ok |-> TRUE, time |-> DateAt(s[1], s[2], s[3], UtcOffset)]
    ELSE [ok |-> FALSE, time |-> ZeroTime]

ShortMonthName ==
    <<"Jan", "Feb", "Mar", "Apr", "May", "Jun", "Jul", "Aug", "Sep", "Oct", "Nov", "Dec">>
\* t.Format("Jan 2, 2006")
FormatShort(tm) ==
    LET ymd == DateOf(tm)
    IN  [month |-> ShortMonthName[ymd[2]], day |-> ymd[3], year |-> ymd[1]]

\* -------------------------------------------------------------- LeaveStats
\* a ([]LeaveStats, error) or (*LeaveStats, error) pair: stats holds the rows
StatsRet(stats, err) == [stats |-> stats, err |-> err]
NoStats == StatsRet(<<>>, NoError)
\* the error of a statement the database could not run
DbError == Msg("sql: database error", {})
NoRecordsError ==
    Msg("no leave records found for any employee. Please ensure that leave data is available for this period.",
        {})
\* the no-data text with no name in it
NoRecordsForAnyone(username) ==
    Msg("no leave records found for any employee. Please ensure that leave data is available for this period.",
        {})
NoRecordsForError(username) ==
    Msg("no leave records found for *%s*. Please check if the username is correct or if they have taken any leave.",
        {username})

\* SUM(end_time - start_time) over rows, in half hours
RECURSIVE SumTicks(_)
SumTicks(rows) ==
    IF rows = <<>> THEN 0
    ELSE (Head(rows).EndTime.t - Head(rows).StartTime.t) + SumTicks(Tail(rows))

\* a group whose total is the duration of its first row alone
StatOfFirst(username, rows) ==
    [Username |-> username, LeaveCount |-> Len(rows),
     LeaveTypes |-> [i \in DOMAIN rows |-> rows[i].LeaveType],
     TotalHours |-> Head(rows).EndTime.t - Head(rows).StartTime.t]
\* one group of GROUP BY username: COUNT(*), STRING_AGG(leave_type, ', ') as the
\* sequence of the joined types, and the total of the durations in half hours
StatOf(username, rows) ==
    [Username |-> username, LeaveCount |-> Len(rows),
     LeaveTypes |-> [i \in DOMAIN rows |-> rows[i].LeaveType],
     TotalHours |-> SumTicks(rows)]
GroupBy(rows) ==
    { StatOf(u, SelectSeq(rows, LAMBDA r : r.Username = u)) :
        u \in { rows[i].Username : i \in DOMAIN rows } }

\* the orders in which the database may hand back a set of groups
Orderings(S) ==
    { o \in [1..Cardinality(S) -> S] : \A i, j \in 1..Cardinality(S) : i # j => o[i] # o[j] }
\* no ORDER BY: every order passes
AnyOrder(o) == TRUE
\* ORDER BY leave_count DESC
Descending(o) == \A i \in 1..(Len(o) - 1) : o[i].LeaveCount >= o[i + 1].LeaveCount

\* a range without its two ends
BetweenExclusive(tm, lo, hi) == lo.t < tm.t /\ tm.t < hi.t
\* start_time BETWEEN $1 AND $2
Between(tm, lo, hi) == lo.t <= tm.t /\ tm.t <= hi.t

\* a period query that takes an empty result for a failure
GetLeaveStatsByPeriodStrict(rows, startDate, endDate) ==
    LET inRange == SelectSeq(rows, LAMBDA r : Between(r.StartTime, startDate, endDate))
    IN  {StatsRet(<<>>, DbError)} \cup
        IF inRange = <<>> THEN {StatsRet(<<>>, NoRecordsError)}
        ELSE { StatsRet(o, NoError) : o \in { x \in Orderings(GroupBy(inRange)) : Descending(x) } }
\* LeaveRepository.GetLeaveStatsByPeriod: everything the call may return
GetLeaveStatsByPeriod(rows, startDate, endDate) ==
    LET inRange == SelectSeq(rows, LAMBDA r : Between(r.StartTime, startDate, endDate))
    IN  {StatsRet(<<>>, DbError)} \cup
        { StatsRet(o, NoError) : o \in { x \in Orderings(GroupBy(inRange)) : Descending(x) } }

\* LIMIT 1 with no ORDER BY: any group may come first
AnyGroups(groups) == groups
\* ORDER BY leave_count DESC LIMIT 1: the groups that may come first
TopGroups(groups) == { x \in groups : \A y \in groups : x.LeaveCount >= y.LeaveCount }

\* a top-employee query that returns nil and no error from an empty table
GetTopLeaveEmployeeNil(rows) ==
    LET groups == GroupBy(rows)
    IN  {StatsRet(<<>>, DbError)} \cup
        IF groups = {} THEN {StatsRet(<<>>, NoError)}
        ELSE { StatsRet(<<s>>, NoError) : s \in TopGroups(groups) }
\* LeaveRepository.GetTopLeaveEmployee: ORDER BY leave_count DESC LIMIT 1, any
\* of the groups with the highest count; sql.ErrNoRows when there is none
GetTopLeaveEmployee(rows) ==
    LET groups == GroupBy(rows)
    IN  {StatsRet(<<>>, DbError)} \cup
        IF groups = {} THEN {StatsRet(<<>>, NoRecordsError)}
        ELSE { StatsRet(<<s>>, NoError) : s \in TopGroups(groups) }

\* LeaveRepository.GetEmployeeStats
GetEmployeeStats(rows, username) ==
    LET mine == SelectSeq(rows, LAMBDA r : r.Username = username)
    IN  {StatsRet(<<>>, DbError)} \cup
        IF mine = <<>> THEN {StatsRet(<<>>, NoRecordsForError(username))}
        ELSE {StatsRet(<<StatOf(username, mine)>>, NoError)}

\* ------------------------------------------------------- the report blocks
Block(kind, msg, stats) == [kind |-> kind, msg |-> msg, stats |-> stats]
HeaderBlock == Block("header", Msg("Leave Statistics Report", {}), <<>>)
\* the section that shows err.Error() behind a cross mark
ErrorBlock(err) == Block("error", err, <<>>)
TopBlock(stat) == Block("top", Msg("Employee with Most Leaves", {}), <<stat>>)
NoRecordsBlock(username) ==
    Block("section",
          Msg("No leave records found for *%s*. Please check if the username is correct or if they have taken any leave.",
              {username}),
          <<>>)
PeriodBlock(startDate, endDate) ==
    Block("period", Msg("*Period:* %s to %s", {}), <<FormatShort(startDate), FormatShort(endDate)>>)
StatBlock(stat) == Block("stat", Msg("", {}), <<stat>>)

\* the classifier's replies
QueryObj(type, start, end, username, err, suggestion, count) ==
    [query_type |-> type, start_date |-> start, end_date |-> end, username |-> username,
     error |-> err, suggestion |-> suggestion, count |-> count]
EmptyQueryObj == QueryObj({}, {}, {}, {}, {}, {}, {})
QueryApiError == [apiErr |-> TRUE, malformed |-> FALSE, obj |-> EmptyQueryObj]
QueryMalformed == [apiErr |-> FALSE, malformed |-> TRUE, obj |-> EmptyQueryObj]

NoQueryRet == Ret(<<>>, NoError)
QIdle ==
    [pc |-> "idle", acked |-> FALSE, asked |-> 0, reply |-> QueryApiError, ret |-> NoQueryRet,
     called |-> <<>>, result |-> NoStats, blocks |-> <<>>, posted |-> <<>>,
     ephemeral |-> <<>>, log |-> <<>>, outcome |-> ""]

\* the body of an HTTP answer: plain text of http.Error, or an encoded value
TextBody(text) == [kind |-> "text/plain", value |-> <<text>>]
NoBody == [kind |-> "", value |-> <<>>]
HIdle ==
    [pc |-> "idle", served |-> 0, method |-> "", decodes |-> FALSE,
     nowAt |-> [t |-> 0, off |-> 0], calls |-> <<>>, status |-> 0, body |-> NoBody,
     answers |-> <<>>]

\* ------------------------------------------------------------ the program
VARIABLES
    now,            \* the wall clock, a time.Time; a run is short against the
                    \* half-hour grain of the clock and reads one instant
    crashed,        \* the runtime has stopped the process (fatal error)
    processedMsgs,  \* App.processedMsgs: timestamp -> bool, false when absent
    leaves,         \* the rows of table leaves, in insertion order
    g,              \* the handleMessage goroutines, one record each:
                    \*   pc        where it stands
                    \*   ev        its *slack.MessageEvent
                    \*   late      the timestamp was already marked when it was started
                    \*   userName  userInfo.Name
                    \*   nowAt     now, as read at the start of ParseLeaveRequest
                    \*   response  the (response, err) pair of ParseLeaveRequest
                    \*   leaveID   leave.ID as Create set it, 0 before that
                    \*   posted    the messages it got posted to the channel
                    \*   acked     the event it works on was acknowledged
                    \*   calls     its calls of the gateway and of the store, in order
                    \*   outcome   how it returned
    vReply, vNow, vRet, vPc,  \* one isolated call of ParseLeaveRequest
    vTo,                      \* where handleMessage goes with what the call returned
    q,              \* the handleQueryCommand goroutine, a record:
                    \*   pc        where it stands
                    \*   acked     the slash command was acknowledged
                    \*   reply     what the classifier was answered
                    \*   asked     how often it has called ParseQuery
                    \*   ret       the (queryResp, err) pair of ParseQuery
                    \*   called    the aggregations run on the store, in order
                    \*   result    what the aggregation returned
                    \*   blocks    the blocks of the report built so far
                    \*   posted    the reports posted to the channel
                    \*   ephemeral the notices sent to the user alone
                    \*   log       the lines written with logger.Error
                    \*   outcome   how it returned
    h               \* the server of /api/leave, a record:
                    \*   pc        "idle" between requests, "await" inside ParseLeaveRequest
                    \*   served    the requests answered so far
                    \*   method    r.Method of the request at hand (or of the last one)
                    \*   decodes   its body decodes into LeaveRequest
                    \*   nowAt     now, as read at the start of ParseLeaveRequest
                    \*   calls     the calls made for it
                    \*   status    the status code of the answer
                    \*   body      the body of the answer
                    \*   answers   the status codes of all answers, in order

vars == <<now, crashed, processedMsgs, leaves, g, vReply, vNow, vRet, vPc, vTo, q, h>>
\* what the handlers of Slack events never touch
callVars == <<vReply, vNow, vRet, vPc, vTo, h>>

Workers == 1..MaxWorkers
EventIds == 1..MaxEvents

BotUserID == "UBOT"
\* the author of the message with a given timestamp: every second message is
\* one the bot posted itself
UserOf(ts) == IF ts % 2 = 0 THEN BotUserID ELSE IF ts % 4 = 1 THEN "U1" ELSE "U2"
\* GetUserInfo(id).Name
NameOf(user) ==
    CASE user = BotUserID -> "latebot"
      [] user = "U1" -> "alice"
      [] OTHER -> "bob"
\* the text of the message with a given timestamp
TextOf(ts) == IF ts % 2 = 1 THEN "on leave today" ELSE "wfh today"

\* ------------------------------------------------- the service's replies
BaseDay == DaysFromCivil(2024, 2, 10)
\* the instant of hh:mm (mm in half hours) Asia/Kolkata on BaseDay + d, written in zone off
At(d, hh, half, off) ==
    [t |-> (BaseDay + d) * TicksPerDay + hh * TicksPerHour + half - IstOffset, off |-> off]
StartOfClock == In(At(0, 10, 0, IstOffset), UtcOffset)

Obj(valid, type, start, end, dur, reason, err) ==
    [is_valid |-> valid, leave_type |-> type, start_time |-> start, end_time |-> end,
     duration |-> dur, reason |-> reason, error |-> err]
Content(obj) == [apiErr |-> FALSE, malformed |-> FALSE, obj |-> obj]
EmptyObj == Obj({}, {}, {}, {}, {}, {}, {})
ApiError == [apiErr |-> TRUE, malformed |-> FALSE, obj |-> EmptyObj]
Malformed == [apiErr |-> FALSE, malformed |-> TRUE, obj |-> EmptyObj]

Nine == {At(0, 9, 0, IstOffset)}
Six == {At(0, 18, 0, IstOffset)}
\* the replies the handlers of the program run are given
Replies ==
    { ApiError, Malformed,
      Content(Obj({FALSE}, {}, {}, {}, {}, {}, {})),
      Content(Obj({FALSE}, {}, {}, {}, {}, {}, {Msg("Not a leave request", {})})),
      Content(Obj({TRUE}, {"FULL_DAY"}, {In(At(1, 9, 0, IstOffset), UtcOffset)},
                  {In(At(1, 18, 0, IstOffset), UtcOffset)}, {"9 hours"}, {"sick"}, {})),
      Content(Obj({TRUE}, {"VACATION"}, Nine, Six, {"9 hours"}, {"sick"}, {})),
      Content(Obj({TRUE}, {"FULL_DAY"}, Nine, Six, {}, {"sick"}, {})),
      Content(Obj({TRUE}, {"FULL_DAY"}, Nine, Six, {"9 hours"}, {}, {})),
      Content(Obj({TRUE}, {"FULL_DAY"}, Nine, Nine, {"0 hours"}, {"sick"}, {})),
      Content(Obj({TRUE}, {}, Nine, Six, {"9 hours"}, {"sick"}, {})),
      Content(Obj({TRUE}, {"FULL_DAY"}, {At(-1, 9, 0, IstOffset)}, {At(-1, 18, 0, IstOffset)},
                  {"9 hours"}, {"sick"}, {})),
      Content(Obj({TRUE}, {"FULL_DAY"}, {At(32, 9, 0, IstOffset)}, {At(32, 18, 0, IstOffset)},
                  {"9 hours"}, {"sick"}, {})),
      Content(Obj({TRUE}, {"HALF_DAY"}, Six, Nine, {"4 hours"}, {"sick"}, {})) }

\* ------------------------------------------------------------ operations
NoEvent == [Timestamp |-> 0, User |-> "", Text |-> "", SubType |-> "", BotID |-> ""]
NoRet == Ret(<<>>, "")
Idle ==
    [pc |-> "idle", ev |-> NoEvent, late |-> FALSE, userName |-> "", nowAt |-> StartOfClock,
     response |-> NoRet, leaveID |-> 0, posted |-> <<>>, outcome |-> "",
     acked |-> FALSE, calls |-> <<>>]

Init ==
    /\ now = StartOfClock
    /\ crashed = FALSE
    /\ processedMsgs = [ts \in EventIds |-> FALSE]
    /\ leaves = <<>>
    /\ g = [w \in Workers |-> Idle]
    /\ vReply = ApiError /\ vNow = StartOfClock /\ vRet = NoRet /\ vPc = "off" /\ vTo = ""
    /\ q = QIdle
    /\ h = HIdle

\* a handler that tries the insert again when it has failed
ReturnOrRetry(r, how) ==
    IF how = "create_error" THEN [r EXCEPT !.pc = "create"]
    ELSE [r EXCEPT !.pc = "done", !.outcome = how, !.userName = "", !.nowAt = StartOfClock,
                   !.response = NoRet]
\* the goroutine returns: its locals are gone; ev, leaveID and posted are kept as
\* the record of what it worked on
Return(r, how) ==
    [r EXCEPT !.pc = "done", !.outcome = how, !.userName = "", !.nowAt = StartOfClock,
              !.response = NoRet]
Goto(r, label) == [r EXCEPT !.pc = label]

\* the check left out
IsProcessedOff(m, ts) == FALSE
\* a.processedMsgs[ev.Timestamp]
IsProcessed(m, ts) == m[ts]
\* the map replaced by one that holds the new timestamp only
MarkOnly(m, ts) == [t \in DOMAIN m |-> t = ts]
\* a.processedMsgs[ev.Timestamp] = true
MarkProcessed(m, ts) == [m EXCEPT ![ts] = TRUE]

\* the event loop lets a message event through to a handler
LoopAccepts(subType, botID, threadTS, user, authOK) ==
    /\ subType = "" /\ botID = "" /\ threadTS = ""
    /\ ~(authOK /\ user = BotUserID)

\* handleSocketModeEvents: a message event is acknowledged, passes the loop's
\* filters and a goroutine is started on a copy that keeps text, user, channel
\* and timestamp;
\* goroutines are numbered in the order the loop starts them
Deliver(w) ==
    /\ ~crashed /\ g[w].pc = "idle"
    /\ \A v \in Workers : v < w => g[v].pc # "idle"
    /\ \E ts \in EventIds, authOK \in BOOLEAN,
          subType \in {"", "message_changed"}, botID \in {"", "B1"}, threadTS \in {"", "1"} :
        /\ LoopAccepts(subType, botID, threadTS, UserOf(ts), authOK)
        /\ g' = [g EXCEPT ![w] =
                [@ EXCEPT !.pc = "check", !.acked = TRUE,
                          !.ev = [Timestamp |-> ts, User |-> UserOf(ts), Text |-> TextOf(ts),
                                  SubType |-> "", BotID |-> ""],
                          !.late = processedMsgs[ts]]]
    /\ UNCHANGED <<now, crashed, processedMsgs, leaves>>
    /\ UNCHANGED <<callVars, q>>

\* handleMessage: if a.processedMsgs[ev.Timestamp] { return }
CheckProcessed(w) ==
    /\ ~crashed /\ g[w].pc = "check"
    /\ g' = [g EXCEPT ![w] =
            IF IsProcessed(processedMsgs, @.ev.Timestamp)
            THEN Return(@, "duplicate")
            ELSE Goto(@, "mark")]
    /\ UNCHANGED <<now, crashed, processedMsgs, leaves>>
    /\ UNCHANGED <<callVars, q>>

\* a handler that marks the timestamp only for a message that is not the bot's own
MarkUnlessOwn(w) ==
    /\ ~crashed /\ g[w].pc = "mark"
    /\ processedMsgs' = IF g[w].ev.User = BotUserID THEN processedMsgs
                         ELSE MarkProcessed(processedMsgs, g[w].ev.Timestamp)
    /\ g' = [g EXCEPT ![w] =
            IF @.ev.SubType # "" \/ @.ev.BotID # ""
            THEN Return(@, "bot_or_system")
            ELSE Goto(@, "authTest")]
    /\ UNCHANGED <<now, crashed, leaves>>
    /\ UNCHANGED <<callVars, q>>
\* handleMessage: a.processedMsgs[ev.Timestamp] = true, then the check that
\* skips bot and system messages
Mark(w) ==
    /\ ~crashed /\ g[w].pc = "mark"
    /\ processedMsgs' = MarkProcessed(processedMsgs, g[w].ev.Timestamp)
    /\ g' = [g EXCEPT ![w] =
            IF @.ev.SubType # "" \/ @.ev.BotID # ""
            THEN Return(@, "bot_or_system")
            ELSE Goto(@, "authTest")]
    /\ UNCHANGED <<now, crashed, leaves>>
    /\ UNCHANGED <<callVars, q>>

\* the map is written by one goroutine while another reads or writes it, with
\* no lock: the runtime may detect it and stop the process
MapRace ==
    /\ ~crashed
    /\ \E w1, w2 \in Workers :
        w1 # w2 /\ g[w1].pc = "mark" /\ g[w2].pc \in {"check", "mark"}
    /\ crashed' = TRUE
    /\ UNCHANGED <<now, processedMsgs, leaves, g>>
    /\ UNCHANGED <<callVars, q>>

\* handleMessage: skip our own messages
AuthTest(w) ==
    /\ ~crashed /\ g[w].pc = "authTest"
    /\ \E authOK \in BOOLEAN :
        g' = [g EXCEPT ![w] =
             IF authOK /\ @.ev.User = BotUserID
             THEN Return(@, "own_message")
             ELSE Goto(@, "userInfo")]
    /\ UNCHANGED <<now, crashed, processedMsgs, leaves>>
    /\ UNCHANGED <<callVars, q>>

\* handleMessage: a.slackClient.GetUserInfo(ev.User)
GetUserInfo(w) ==
    /\ ~crashed /\ g[w].pc = "userInfo"
    /\ \E ok \in BOOLEAN :
        g' = [g EXCEPT ![w] =
             IF ok
             THEN [@ EXCEPT !.pc = "parse", !.userName = NameOf(g[w].ev.User)]
             ELSE Return(@, "user_info_error")]
    /\ UNCHANGED <<now, crashed, processedMsgs, leaves>>
    /\ UNCHANGED <<callVars, q>>

\* ParseLeaveRequest reads the clock, builds the prompt and sends the request
ParseCall(w) ==
    /\ ~crashed /\ g[w].pc = "parse"
    /\ g' = [g EXCEPT ![w] = [@ EXCEPT !.pc = "await", !.nowAt = In(now, IstOffset),
                                       !.calls = Append(@, "ParseLeaveRequest")]]
    /\ UNCHANGED <<now, crashed, processedMsgs, leaves>>
    /\ UNCHANGED <<callVars, q>>

\* the label handleMessage goes to with the pair ParseLeaveRequest returned
AfterParse(ret) ==
    IF ret.err # "" THEN "parse_error"
    ELSE IF ~ret.resp[1].IsValid
    THEN IF ret.resp[1].Error # NoError THEN "reject" ELSE "not_a_leave"
    ELSE "create"

\* a handler that answers a failed interpretation with a rejection message
ParseReturnRejecting(w) ==
    /\ ~crashed /\ g[w].pc = "await"
    /\ \E reply \in Replies :
        LET ret == ParseLeaveRequest(reply, g[w].nowAt)
            to  == AfterParse(ret)
        IN  g' = [g EXCEPT ![w] =
                 IF to = "parse_error"
                 THEN Return([@ EXCEPT !.posted =
                                 Append(@, [kind |-> "rejection", error |-> Msg(ret.err, {}),
                                            leave |-> 0])],
                             to)
                 ELSE IF to = "not_a_leave"
                 THEN Return(@, to)
                 ELSE [@ EXCEPT !.pc = to, !.response = ret]]
    /\ UNCHANGED <<now, crashed, processedMsgs, leaves>>
    /\ UNCHANGED <<callVars, q>>
\* the service answers (or the call fails) and ParseLeaveRequest returns
ParseReturn(w) ==
    /\ ~crashed /\ g[w].pc = "await"
    /\ \E reply \in Replies :
        LET ret == ParseLeaveRequest(reply, g[w].nowAt)
            to  == AfterParse(ret)
        IN  g' = [g EXCEPT ![w] =
                 IF to \in {"parse_error", "not_a_leave"}
                 THEN Return(@, to)
                 ELSE [@ EXCEPT !.pc = to, !.response = ret]]
    /\ UNCHANGED <<now, crashed, processedMsgs, leaves>>
    /\ UNCHANGED <<callVars, q>>

\* a rejection that tells the user no reason
RejectionGeneric(resp) ==
    [kind |-> "rejection", error |-> Msg("Invalid leave request", {}), leave |-> 0]
\* the message that shows response.Error behind a cross mark
RejectionMessage(resp) == [kind |-> "rejection", error |-> resp.Error, leave |-> 0]

\* handleMessage: the reply is not valid and carries an error, tell the user
PostRejection(w) ==
    /\ ~crashed /\ g[w].pc = "reject"
    /\ \E ok \in BOOLEAN :
        g' = [g EXCEPT ![w] =
             Return([@ EXCEPT !.posted =
                        IF ok
                        THEN Append(@, RejectionMessage(g[w].response.resp[1]))
                        ELSE @],
                    "rejected")]
    /\ UNCHANGED <<now, crashed, processedMsgs, leaves>>
    /\ UNCHANGED <<callVars, q>>

\* a leave built with duration and reason in each other's place
NewLeaveSwapped(name, text, resp) ==
    [ID |-> 0, Username |-> name, OriginalText |-> text, StartTime |-> resp.StartTime,
     EndTime |-> resp.EndTime, Duration |-> resp.Reason, Reason |-> resp.Duration,
     LeaveType |-> resp.LeaveType]
\* handleMessage: leave := &models.Leave{...}
NewLeave(name, text, resp) ==
    [ID |-> 0, Username |-> name, OriginalText |-> text, StartTime |-> resp.StartTime,
     EndTime |-> resp.EndTime, Duration |-> resp.Duration, Reason |-> resp.Reason,
     LeaveType |-> resp.LeaveType]

\* LeaveRepository.Create: the row INSERT adds, with the id the table assigns
InsertRow(rows, l, at) ==
    [l EXCEPT !.ID = Len(rows) + 1] @@ [CreatedAt |-> at, UpdatedAt |-> at]

\* a handler that goes on to the confirmation whether the insert failed or not
CreateUnchecked(w) ==
    /\ ~crashed /\ g[w].pc = "create"
    /\ \E ok \in BOOLEAN :
        LET l   == NewLeave(g[w].userName, g[w].ev.Text, g[w].response.resp[1])
            row == InsertRow(leaves, l, now)
        IN  IF ok
            THEN /\ leaves' = Append(leaves, row)
                 /\ g' = [g EXCEPT ![w] = [@ EXCEPT !.pc = "confirm", !.leaveID = row.ID,
                                                    !.calls = Append(@, "Create")]]
            ELSE /\ UNCHANGED leaves
                 /\ g' = [g EXCEPT ![w] = [@ EXCEPT !.pc = "confirm",
                                                    !.calls = Append(@, "Create")]]
    /\ UNCHANGED <<now, crashed, processedMsgs>>
    /\ UNCHANGED <<callVars, q>>
\* handleMessage: build the leave and a.leaveRepo.Create(leave)
Create(w) ==
    /\ ~crashed /\ g[w].pc = "create"
    /\ \E ok \in BOOLEAN :
        LET l   == NewLeave(g[w].userName, g[w].ev.Text, g[w].response.resp[1])
            row == InsertRow(leaves, l, now)
        IN  IF ok
            THEN /\ leaves' = Append(leaves, row)
                 /\ g' = [g EXCEPT ![w] = [@ EXCEPT !.pc = "confirm", !.leaveID = row.ID,
                                                    !.calls = Append(@, "Create")]]
            ELSE /\ UNCHANGED leaves
                 /\ g' = [g EXCEPT ![w] =
                         Return([@ EXCEPT !.calls = Append(@, "Create")], "create_error")]
    /\ UNCHANGED <<now, crashed, processedMsgs>>
    /\ UNCHANGED <<callVars, q>>

\* handleMessage: switch response.LeaveType, the words of the confirmation
MessageType(leaveType) ==
    CASE leaveType = "WFH" -> "WFH"
      [] leaveType = "FULL_DAY" -> "full day leave"
      [] leaveType = "HALF_DAY" -> "half day leave"
      [] leaveType = "LATE_ARRIVAL" -> "late arrival"
      [] leaveType = "EARLY_DEPARTURE" -> "early departure"
      [] OTHER -> "request"

\* handleMessage: send the confirmation message
Confirm(w) ==
    /\ ~crashed /\ g[w].pc = "confirm"
    /\ \E ok \in BOOLEAN :
        g' = [g EXCEPT ![w] =
             Return([@ EXCEPT !.posted =
                        IF ok
                        THEN Append(@, [kind |-> "confirmation",
                                        error |-> Msg(MessageType(g[w].response.resp[1].LeaveType), {}),
                                        leave |-> g[w].leaveID])
                        ELSE @],
                    "recorded")]
    /\ UNCHANGED <<now, crashed, processedMsgs, leaves>>
    /\ UNCHANGED <<callVars, q>>

Next ==
    \/ \E w \in Workers : Deliver(w)
    \/ \E w \in Workers : CheckProcessed(w)
    \/ \E w \in Workers : Mark(w)
    \/ MapRace
    \/ \E w \in Workers : AuthTest(w)
    \/ \E w \in Workers : GetUserInfo(w)
    \/ \E w \in Workers : ParseCall(w)
    \/ \E w \in Workers : ParseReturn(w)
    \/ \E w \in Workers : PostRejection(w)
    \/ \E w \in Workers : Create(w)
    \/ \E w \in Workers : Confirm(w)

Spec == Init /\ [][Next]_vars

\* ------------------------------------------- one call of ParseLeaveRequest
\* the instants the service may name: days around BaseDay and around the
\* thirty-day limit, at the start, in the middle and at the end of the day in
\* Asia/Kolkata, written in either zone
CallDays == {-1, 0, 1, 29, 30, 31, 32}
CallTimes ==
    { At(d, hm[1], hm[2], off) :
        d \in CallDays, hm \in {<<0, 0>>, <<9, 0>>, <<23, 1>>}, off \in {UtcOffset, IstOffset} }
CallReplies ==
    { ApiError, Malformed }
    \cup { Content(Obj({FALSE}, {}, st, {}, {}, {}, er)) :
             st \in {{}, {At(-1, 9, 0, IstOffset)}}, er \in {{}, {Msg("Not a leave request", {})}} }
    \cup { Content(Obj({TRUE}, ty, {st}, {en}, du, re, {})) :
             ty \in {{}, {""}, {"FULL_DAY"}, {"VACATION"}}, st \in CallTimes, en \in CallTimes,
             du \in {{}, {"9 hours"}}, re \in {{}, {"sick"}} }
\* the readings of the clock: the server's clock runs in UTC
CallNows ==
    { In(At(d, hm[1], hm[2], IstOffset), UtcOffset) :
        d \in 0..MaxDayShift, hm \in {<<0, 0>>, <<10, 0>>, <<23, 1>>} }

InitCall ==
    /\ now = StartOfClock
    /\ crashed = FALSE
    /\ processedMsgs = [ts \in EventIds |-> FALSE]
    /\ leaves = <<>>
    /\ g = [w \in Workers |-> Idle]
    /\ vReply \in CallReplies
    /\ vNow \in CallNows
    /\ vRet = NoRet
    /\ vPc = "call"
    /\ vTo = ""
    /\ q = QIdle
    /\ h = HIdle

\* the call returns
Call ==
    /\ vPc = "call"
    /\ vRet' = ParseLeaveRequest(vReply, In(vNow, IstOffset))
    /\ vPc' = "done"
    /\ UNCHANGED <<now, crashed, processedMsgs, leaves, g, vReply, vNow, vTo, q, h>>

\* handleMessage branches on the pair it was handed
Branch ==
    /\ vPc = "done"
    /\ vTo' = AfterParse(vRet)
    /\ vPc' = "handled"
    /\ UNCHANGED <<now, crashed, processedMsgs, leaves, g, vReply, vNow, vRet, q, h>>

NextCall == Call \/ Branch

SpecCall == InitCall /\ [][NextCall]_vars

\* ------------------------- two calls of the gateway with the same message
\* a gateway that takes the day of the event's timestamp for today
ClockOfTimestamp(timestamp, clock) == At(timestamp, 10, 0, IstOffset)
\* ParseLeaveRequest: now := time.Now().In(loc); the timestamp argument is
\* not read anywhere in the function
ClockOfCall(timestamp, clock) == In(clock, IstOffset)
\* ParseLeaveRequest(text, timestamp) as a whole, given the reading of the
\* clock and the answer of the service; the text goes into the prompt only
ParseLeaveRequestOf(text, timestamp, reply, clock) ==
    ParseLeaveRequest(reply, ClockOfCall(timestamp, clock))

InitTwin ==
    /\ now = StartOfClock
    /\ crashed = FALSE
    /\ processedMsgs = [ts \in EventIds |-> FALSE]
    /\ leaves = <<>>
    /\ g = [w \in Workers |-> Idle]
    /\ vReply \in Replies
    /\ vNow \in CallNows
    /\ vRet = NoRet
    /\ vPc = "twin"
    /\ vTo = ""
    /\ q = QIdle
    /\ h = HIdle

\* handleMessage: a.openAI.ParseLeaveRequest(ev.Text, ev.Timestamp), made by
\* handler w for the same text under some timestamp, at the same reading of
\* the clock and with the same answer of the service
TwinCall(w) ==
    /\ vPc = "twin" /\ g[w].pc = "idle"
    /\ \E ts \in EventIds :
        g' = [g EXCEPT ![w] =
             [@ EXCEPT !.pc = "returned",
                       !.ev = [Timestamp |-> ts, User |-> "U1", Text |-> TextOf(1),
                               SubType |-> "", BotID |-> ""],
                       !.nowAt = ClockOfCall(ts, vNow),
                       !.calls = Append(@, "ParseLeaveRequest"),
                       !.response = ParseLeaveRequestOf(TextOf(1), ts, vReply, vNow)]]
    /\ UNCHANGED <<now, crashed, processedMsgs, leaves, vReply, vNow, vRet, vPc, vTo, q, h>>

NextTwin == \E w \in Workers : TwinCall(w)

SpecTwin == InitTwin /\ [][NextTwin]_vars

\* ------------------------------------------------- one analytics command
\* The command handler only reads the store, so it is run against a store that
\* message handling has filled before: up to MaxRows rows of two users, with
\* starts before, at, inside and after the period 2024-02-10 .. 2024-02-11.
QueryUsers == {"alice", "bob"}
\* <<day after BaseDay, hour, half hour (Asia/Kolkata), length in hours, leave type>>
QueryStarts ==
    { <<-1, 9, 0, 9, "FULL_DAY">>,      \* the day before the period
      <<0, 5, 1, 4, "HALF_DAY">>,       \* 2024-02-10T00:00Z, the first instant of the period
      <<0, 9, 0, 9, "FULL_DAY">>,
      <<1, 5, 1, 8, "WFH">>,            \* 2024-02-11T00:00Z
      <<1, 9, 0, 9, "FULL_DAY">>,       \* later on 2024-02-11
      <<2, 9, 0, 9, "WFH">> }           \* the day after the period
QueryRow(name, c) ==
    NewLeave(name, "on leave",
             [StartTime |-> At(c[1], c[2], c[3], IstOffset),
              EndTime |-> At(c[1], c[2] + c[4], c[3], IstOffset),
              Duration |-> "some hours", Reason |-> "sick", LeaveType |-> c[5]])
\* the table after the leaves of s were created one after the other
RECURSIVE Store(_)
Store(s) ==
    IF s = <<>> THEN <<>>
    ELSE LET rows == Store(SubSeq(s, 1, Len(s) - 1))
         IN  Append(rows, InsertRow(rows, s[Len(s)], StartOfClock))
Stores ==
    UNION { { Store(s) : s \in [1..n -> { QueryRow(u, c) : u \in QueryUsers, c \in QueryStarts }] } :
              n \in 0..MaxRows }

CmdText == "who took the most leave"
QueryContent(obj) == [apiErr |-> FALSE, malformed |-> FALSE, obj |-> obj]
QueryDates == {{}, {<<2024, 2, 10>>}, {<<2024, 2, 11>>}, {<<2024, 2, 30>>}}
QueryReplies ==
    { QueryApiError, QueryMalformed,
      QueryContent(QueryObj({"top_employee"}, {}, {}, {}, {}, {}, {})),
      QueryContent(QueryObj({"top_employee"}, {}, {}, {}, {}, {}, {"0"})),
      QueryContent(QueryObj({"trend"}, {}, {}, {}, {}, {}, {})),
      QueryContent(EmptyQueryObj) }
    \cup { QueryContent(QueryObj({"employee_stats"}, {}, {}, u, {}, {}, {})) :
              u \in {{}, {"alice"}, {"carol"}} }
    \cup { QueryContent(QueryObj({"period_stats"}, sd, ed, {}, {}, {}, {})) :
              sd \in QueryDates, ed \in QueryDates }
    \cup { QueryContent(QueryObj(ty, {<<2024, 2, 10>>}, {<<2024, 2, 11>>}, {"alice"},
                                 {"Invalid query"}, su, {})) :
              ty \in {{}, {"top_employee"}, {"employee_stats"}, {"period_stats"}},
              su \in {{}, {"ask for this month"}} }

InitQuery ==
    /\ now = StartOfClock
    /\ crashed = FALSE
    /\ processedMsgs = [ts \in EventIds |-> FALSE]
    /\ leaves \in Stores
    /\ g = [w \in Workers |-> Idle]
    /\ vReply = ApiError /\ vNow = StartOfClock /\ vRet = NoRet /\ vPc = "off" /\ vTo = ""
    /\ q = QIdle
    /\ h = HIdle

QReturn(r, how) == [r EXCEPT !.pc = "done", !.outcome = how]

\* an event loop that runs handlers itself: no command while a message is
\* being handled
SlashCommandInline ==
    /\ ~crashed /\ q.pc = "idle"
    /\ \A w \in Workers : g[w].pc \in {"idle", "done"}
    /\ q' = [q EXCEPT !.pc = "parse", !.acked = TRUE]
    /\ UNCHANGED <<now, crashed, processedMsgs, leaves, g>>
    /\ UNCHANGED callVars
\* handleSocketModeEvents: the slash command is acknowledged and a goroutine
\* is started on it
SlashCommand ==
    /\ ~crashed /\ q.pc = "idle"
    /\ q' = [q EXCEPT !.pc = "parse", !.acked = TRUE]
    /\ UNCHANGED <<now, crashed, processedMsgs, leaves, g>>
    /\ UNCHANGED callVars

\* the case of the switch on queryResp.QueryType; the switch has no default
QueryLabel(queryType) ==
    CASE queryType = "top_employee" -> "top"
      [] queryType = "employee_stats" -> "employee"
      [] queryType = "period_stats" -> "period"
      [] OTHER -> "post"

\* a handler that tells the user why the query could not be understood
ParseQueryReturnTelling ==
    /\ ~crashed /\ q.pc = "parse"
    /\ \E reply \in QueryReplies, ok \in BOOLEAN :
        LET ret  == ParseQuery(reply, CmdText)
            seen == [q EXCEPT !.reply = reply, !.ret = ret, !.asked = @ + 1]
        IN  q' = IF ret.err # NoError
                 THEN QReturn([seen EXCEPT !.log = Append(@, "Failed to parse query"),
                                           !.ephemeral = IF ok THEN Append(@, ret.err) ELSE @],
                              "parse_error")
                 ELSE IF ret.resp[1].Error # ""
                 THEN QReturn([seen EXCEPT !.ephemeral =
                                  IF ok THEN Append(@, Msg(ret.resp[1].Error, {})) ELSE @],
                              "query_error")
                 ELSE [seen EXCEPT !.pc = QueryLabel(ret.resp[1].QueryType),
                                   !.blocks = <<HeaderBlock>>]
    /\ UNCHANGED <<now, crashed, processedMsgs, leaves, g>>
    /\ UNCHANGED callVars
\* handleQueryCommand: ParseQuery returns, the header block is built and the
\* switch is entered
ParseQueryReturn ==
    /\ ~crashed /\ q.pc = "parse"
    /\ \E reply \in QueryReplies, ok \in BOOLEAN :
        LET ret  == ParseQuery(reply, CmdText)
            seen == [q EXCEPT !.reply = reply, !.ret = ret, !.asked = @ + 1]
        IN  q' = IF ret.err # NoError
                 THEN QReturn([seen EXCEPT !.log = Append(@, "Failed to parse query")],
                              "parse_error")
                 ELSE IF ret.resp[1].Error # ""
                 THEN QReturn([seen EXCEPT !.ephemeral =
                                  IF ok THEN Append(@, Msg(ret.resp[1].Error, {})) ELSE @],
                              "query_error")
                 ELSE [seen EXCEPT !.pc = QueryLabel(ret.resp[1].QueryType),
                                   !.blocks = <<HeaderBlock>>]
    /\ UNCHANGED <<now, crashed, processedMsgs, leaves, g>>
    /\ UNCHANGED callVars

\* handleQueryCommand, case "top_employee"; with neither a row nor an error
\* stat is nil and stat.Username stops the process
TopEmployee ==
    /\ ~crashed /\ q.pc = "top"
    /\ \E res \in GetTopLeaveEmployee(leaves) :
        LET ran == [q EXCEPT !.called = Append(@, "top_employee"), !.result = res]
        IN  IF res.err # NoError
            THEN /\ q' = [ran EXCEPT !.pc = "post",
                                     !.log = Append(@, "Failed to get top leave employee"),
                                     !.blocks = Append(@, ErrorBlock(res.err))]
                 /\ UNCHANGED crashed
            ELSE IF res.stats = <<>>
            THEN /\ q' = QReturn(ran, "panic")
                 /\ crashed' = TRUE
            ELSE /\ q' = [ran EXCEPT !.pc = "post", !.blocks = Append(@, TopBlock(res.stats[1]))]
                 /\ UNCHANGED crashed
    /\ UNCHANGED <<now, processedMsgs, leaves, g>>
    /\ UNCHANGED callVars

\* handleQueryCommand, case "employee_stats"; the rows that are found are not
\* put into any block
EmployeeStats ==
    /\ ~crashed /\ q.pc = "employee"
    /\ \E res \in GetEmployeeStats(leaves, q.ret.resp[1].Username) :
        LET ran == [q EXCEPT !.called = Append(@, "employee_stats"), !.result = res]
        IN  q' = IF res.err # NoError
                 THEN [ran EXCEPT !.pc = "post",
                                  !.log = Append(@, "Failed to get employee stats"),
                                  !.blocks = Append(@, ErrorBlock(res.err))]
                 ELSE IF Len(res.stats) = 0
                 THEN [ran EXCEPT !.pc = "post",
                                  !.blocks = Append(@, NoRecordsBlock(q.ret.resp[1].Username))]
                 ELSE [ran EXCEPT !.pc = "post"]
    /\ UNCHANGED <<now, crashed, processedMsgs, leaves, g>>
    /\ UNCHANGED callVars

\* handleQueryCommand, case "period_stats"
PeriodStats ==
    /\ ~crashed /\ q.pc = "period"
    /\ LET startDateParsed == ParseDate(q.ret.resp[1].StartDate)
           endDateParsed   == ParseDate(q.ret.resp[1].EndDate)
       IN  IF ~startDateParsed.ok \/ ~endDateParsed.ok
           THEN q' = QReturn(q, "bad_date")
           ELSE \E res \in GetLeaveStatsByPeriod(leaves, startDateParsed.time, endDateParsed.time) :
                LET ran == [q EXCEPT !.called = Append(@, "period_stats"), !.result = res]
                IN  q' = IF res.err # NoError
                         THEN QReturn([ran EXCEPT !.log = Append(@, "Failed to get leave stats")],
                                      "stats_error")
                         ELSE [ran EXCEPT
                                 !.pc = "post",
                                 !.blocks = @ \o <<PeriodBlock(startDateParsed.time, endDateParsed.time)>>
                                              \o [i \in DOMAIN res.stats |-> StatBlock(res.stats[i])]]
    /\ UNCHANGED <<now, crashed, processedMsgs, leaves, g>>
    /\ UNCHANGED callVars

\* a handler that empties the table once it has posted
PostReportPruning ==
    /\ ~crashed /\ q.pc = "post"
    /\ q' = QReturn([q EXCEPT !.posted = Append(@, q.blocks)], "posted")
    /\ leaves' = <<>>
    /\ UNCHANGED <<now, crashed, processedMsgs, g>>
    /\ UNCHANGED callVars
\* handleQueryCommand: post the blocks to the channel; when that fails, log it
\* and send the user the failure notice
PostReport ==
    /\ ~crashed /\ q.pc = "post"
    /\ \E ok \in BOOLEAN, okNotice \in BOOLEAN :
        q' = IF ok
             THEN QReturn([q EXCEPT !.posted = Append(@, q.blocks)], "posted")
             ELSE QReturn([q EXCEPT !.log = Append(@, "Failed to post query response"),
                                    !.ephemeral =
                                        IF okNotice
                                        THEN Append(@, Msg("Failed to get leave statistics", {}))
                                        ELSE @],
                          "post_failed")
    /\ UNCHANGED <<now, crashed, processedMsgs, leaves, g>>
    /\ UNCHANGED callVars

NextQuery ==
    \/ SlashCommand
    \/ ParseQueryReturn
    \/ TopEmployee
    \/ EmployeeStats
    \/ PeriodStats
    \/ PostReport

SpecQuery == InitQuery /\ [][NextQuery]_vars

\* ------------------------------ one message and one command, side by side
\* The event loop has started one handleMessage goroutine and one
\* handleQueryCommand goroutine; the table is empty at the start and the
\* command reads what the message handler has inserted by then.
HandlerStep ==
    \/ CheckProcessed(1)
    \/ Mark(1)
    \/ AuthTest(1)
    \/ GetUserInfo(1)
    \/ ParseCall(1)
    \/ PostRejection(1)
    \/ Create(1)
    \/ Confirm(1)
QueryStep ==
    \/ TopEmployee
    \/ EmployeeStats
    \/ PeriodStats
    \/ PostReport

NextPair ==
    \/ Deliver(1)
    \/ SlashCommand
    \/ HandlerStep
    \/ QueryStep
    \/ ParseReturn(1)
    \/ ParseQueryReturn

SpecPair == Init /\ [][NextPair]_vars

\* ------------------------------------------------ the endpoint /api/leave
\* The endpoint is served while the bot runs, so the map and the table hold
\* what message handling has put there. Requests are taken one after the other.
HttpStores ==
    UNION { { Store(s) : s \in [1..n -> { QueryRow(u, <<0, 9, 0, 9, "FULL_DAY">>) : u \in QueryUsers }] } :
              n \in 0..1 }
InitHttp ==
    /\ now = StartOfClock
    /\ crashed = FALSE
    /\ processedMsgs \in [EventIds -> BOOLEAN]
    /\ leaves \in HttpStores
    /\ g = [w \in Workers |-> Idle]
    /\ vReply = ApiError /\ vNow = StartOfClock /\ vRet = NoRet /\ vPc = "off" /\ vTo = ""
    /\ q = QIdle
    /\ h = HIdle

\* fmt.Sprintf("%d", time.Now().Unix()): the seconds since 1970 of an instant
UnixSeconds(tm) == tm.t * (3600 \div TicksPerHour)
\* the answer is written and the handler returns
Answer(r, status, body) ==
    [r EXCEPT !.pc = "idle", !.served = @ + 1, !.status = status, !.body = body,
              !.answers = Append(@, status)]

\* handleLeaveRequest: the method is checked, the body is decoded and
\* ParseLeaveRequest is called, which reads the clock and sends its request
HttpRequest ==
    /\ h.pc = "idle" /\ h.served < MaxRequests
    /\ \E method \in {"GET", "POST"}, decodes \in BOOLEAN :
        LET r == [h EXCEPT !.method = method, !.decodes = decodes, !.calls = <<>>,
                           !.status = 0, !.body = NoBody]
        IN  h' = IF method # "POST"
                 THEN Answer(r, 405, TextBody("Method not allowed"))
                 ELSE IF ~decodes
                 THEN Answer(r, 400, TextBody("Invalid request body"))
                 ELSE [r EXCEPT !.pc = "await",
                                !.nowAt = ClockOfCall(UnixSeconds(now), now),
                                !.calls = Append(@, "ParseLeaveRequest")]
    /\ UNCHANGED <<now, crashed, processedMsgs, leaves, g, vReply, vNow, vRet, vPc, vTo, q>>

\* an endpoint that stores the candidate it has found valid
HttpParseReturnSaving ==
    /\ h.pc = "await"
    /\ \E reply \in Replies :
        LET ret == ParseLeaveRequest(reply, h.nowAt)
        IN  /\ h' = IF ret.err # ""
                    THEN Answer(h, 500, TextBody(ret.err))
                    ELSE Answer(h, 200, [kind |-> "application/json", value |-> ret.resp])
            /\ leaves' = IF ret.err = "" /\ ret.resp[1].IsValid
                         THEN Append(leaves,
                                     InsertRow(leaves, NewLeave("", TextOf(1), ret.resp[1]), now))
                         ELSE leaves
    /\ UNCHANGED <<now, crashed, processedMsgs, g, vReply, vNow, vRet, vPc, vTo, q>>
\* handleLeaveRequest: ParseLeaveRequest returns; its error is answered with
\* status 500, its response is encoded into the answer
HttpParseReturn ==
    /\ h.pc = "await"
    /\ \E reply \in Replies :
        LET ret == ParseLeaveRequest(reply, h.nowAt)
        IN  h' = IF ret.err # ""
                 THEN Answer(h, 500, TextBody(ret.err))
                 ELSE Answer(h, 200, [kind |-> "application/json", value |-> ret.resp])
    /\ UNCHANGED <<now, crashed, processedMsgs, leaves, g, vReply, vNow, vRet, vPc, vTo, q>>

NextHttp == HttpRequest \/ HttpParseReturn

SpecHttp == InitHttp /\ [][NextHttp]_vars

\* ------------------------------------------- two deliveries, side by side
\* The event loop has started two handleMessage goroutines, for the same
\* timestamp or for different ones.
TwoStep(w) ==
    \/ Deliver(w)
    \/ CheckProcessed(w)
    \/ Mark(w)
    \/ AuthTest(w)
    \/ GetUserInfo(w)
    \/ ParseCall(w)
    \/ ParseReturn(w)
    \/ PostRejection(w)
    \/ Create(w)
    \/ Confirm(w)

NextTwo ==
    \/ TwoStep(1)
    \/ TwoStep(2)
    \/ MapRace

SpecTwo == Init /\ [][NextTwo]_vars

\* The same with the scheduler's guarantee: a goroutine that can take a step of
\* its own takes it. Nothing makes the interpretation service answer, and the
\* calls are made with context.Background() on a client without a timeout, so
\* ParseReturn and ParseQueryReturn happen only if the service lets them.
SpecLive ==
    /\ Init /\ [][NextPair]_vars
    /\ WF_vars(HandlerStep)
    /\ WF_vars(QueryStep)

\* ------------------------------------------------------------- properties
\* the goroutines that handle timestamp ts and got past the duplicate check
Passed(ts) ==
    { w \in Workers : /\ g[w].ev.Timestamp = ts
                      /\ g[w].pc \notin {"idle", "check"}
                      /\ g[w].outcome # "duplicate" }
\* the goroutines that handle timestamp ts and had a row inserted
Creators(ts) == { w \in Workers : g[w].ev.Timestamp = ts /\ g[w].leaveID # 0 }
Failures == {"user_info_error", "parse_error", "rejected", "create_error"}

\* C1: of the handlers running for one event timestamp, at most one gets past
\* the duplicate check, and once all of them have done the check exactly one has.
OnePassesGuard ==
    \A ts \in EventIds :
        LET hs == { w \in Workers : g[w].ev.Timestamp = ts }
        IN  /\ Cardinality(Passed(ts)) <= 1
            /\ (hs # {} /\ \A w \in hs : g[w].pc # "check") => Cardinality(Passed(ts)) = 1

\* C2: for every event timestamp at most one row is ever inserted.
AtMostOneLeavePerEvent ==
    \A ts \in EventIds : Cardinality(Creators(ts)) <= 1

\* C3: a handler started for a timestamp that is already marked never gets past
\* the duplicate check: it calls nothing, inserts no row and posts nothing,
\* whatever became of the handler that marked the timestamp.
LateDeliverySkipped ==
    \A w \in Workers :
        g[w].late =>
            /\ g[w].pc \in {"check", "done"}
            /\ g[w].pc = "done" => g[w].outcome = "duplicate"
            /\ g[w].leaveID = 0
            /\ g[w].posted = <<>>
LateDeliveryAfterFailure ==
    \E w1, w2 \in Workers :
        /\ g[w1].pc = "done" /\ g[w1].outcome \in Failures
        /\ g[w2].ev.Timestamp = g[w1].ev.Timestamp
        /\ g[w2].late /\ g[w2].pc = "done" /\ g[w2].outcome = "duplicate"
        /\ leaves = <<>>

\* C4: a timestamp that is marked in processedMsgs stays marked in every later state.
SeenOnlyGrows ==
    [][\A ts \in EventIds : processedMsgs[ts] => processedMsgs'[ts]]_vars
SeenTwoAfterReturn ==
    /\ \A ts \in EventIds : processedMsgs[ts]
    /\ \E w \in Workers : g[w].pc = "done" /\ g[w].outcome \in Failures

\* the calendar day in Asia/Kolkata an instant falls on, as a day number
IstDay(tm) == (tm.t + IstOffset) \div TicksPerDay
\* the isolated call has returned from a reply that is valid and names a leave type
CallValidated ==
    /\ vPc = "done" /\ ~vReply.apiErr /\ ~vReply.malformed
    /\ vReply.obj.is_valid = {TRUE}
    /\ Field(vReply.obj.leave_type, "") # ""
CallStart == Field(vReply.obj.start_time, ZeroTime)
CallEnd == Field(vReply.obj.end_time, ZeroTime)
CallRejected(error) ==
    /\ vRet.err = "" /\ Len(vRet.resp) = 1
    /\ ~vRet.resp[1].IsValid
    /\ vRet.resp[1].Error = error
CallAccepted ==
    /\ vRet.err = "" /\ Len(vRet.resp) = 1
    /\ vRet.resp[1].IsValid

\* C5: a valid candidate whose start falls on a calendar day (Asia/Kolkata)
\* before today's is rejected with the past-date reason, whatever its leave
\* type and its end time.
PastDateRejected ==
    (CallValidated /\ IstDay(CallStart) < IstDay(vNow)) => CallRejected(PastDateError)
PastDateCase ==
    /\ CallValidated /\ IstDay(CallStart) < IstDay(vNow)
    /\ vReply.obj.leave_type = {"VACATION"}
    /\ CallEnd.t < CallStart.t
    /\ CallStart.off = UtcOffset
    /\ CallRejected(PastDateError)

\* C6: a valid candidate that starts 31 days or more after today is rejected
\* with a message that carries the date of today + 30 days; one that starts on
\* the day today + 30 and does not end before it starts is accepted.
MaxDateBoundary ==
    LET maxYmd == CivilFromDays(IstDay(vNow) + 30)
        shown  == [month |-> MonthName[maxYmd[2]], day |-> maxYmd[3], year |-> maxYmd[1]]
    IN  /\ (CallValidated /\ IstDay(CallStart) >= IstDay(vNow) + 31) =>
                /\ vRet.err = "" /\ Len(vRet.resp) = 1
                /\ ~vRet.resp[1].IsValid
                /\ vRet.resp[1].Error.args = {shown}
        /\ (CallValidated /\ IstDay(CallStart) = IstDay(vNow) + 30 /\ ~(CallEnd.t < CallStart.t))
                => CallAccepted
MaxDateCase ==
    /\ CallValidated
    /\ IstDay(vNow) = BaseDay
    /\ IstDay(CallStart) = BaseDay + 31
    /\ Len(vRet.resp) = 1
    /\ vRet.resp[1].Error.args = {[month |-> "March", day |-> 11, year |-> 2024]}

\* C7: a valid candidate whose end is not after its start (end equal to start
\* included) is rejected, also when its start date lies within today .. today + 30.
EndNotAfterStartRejected ==
    (/\ CallValidated
     /\ IstDay(CallStart) >= IstDay(vNow) /\ IstDay(CallStart) <= IstDay(vNow) + 30
     /\ CallEnd.t <= CallStart.t)
        => /\ vRet.err = "" /\ Len(vRet.resp) = 1
           /\ ~vRet.resp[1].IsValid

\* C8: every row of the store has startTime strictly before endTime.
PersistedStartBeforeEnd ==
    \A i \in DOMAIN leaves : leaves[i].StartTime.t < leaves[i].EndTime.t

\* C9: a valid reply whose leave type is outside the five known types never
\* comes back from the gateway as a candidate, and no row carries such a type.
LeaveTypeInEnum ==
    /\ \A w \in Workers :
        (Len(g[w].response.resp) = 1 /\ g[w].response.resp[1].IsValid)
            => g[w].response.resp[1].LeaveType \in LeaveTypes
    /\ \A i \in DOMAIN leaves : leaves[i].LeaveType \in LeaveTypes

\* C10: a valid reply without duration or without reason never comes back from
\* the gateway as a candidate, and no row is inserted for it.
RequiredStringsPresent ==
    /\ \A w \in Workers :
        (Len(g[w].response.resp) = 1 /\ g[w].response.resp[1].IsValid)
            => g[w].response.resp[1].Duration # "" /\ g[w].response.resp[1].Reason # ""
    /\ \A i \in DOMAIN leaves : leaves[i].Duration # "" /\ leaves[i].Reason # ""

\* the isolated call has returned and handleMessage has branched on the result
CallHandled == vPc = "handled" /\ ~vReply.apiErr
\* the isolated call answered a valid reply that names no leave type
CallTypeless ==
    /\ ~vReply.malformed
    /\ vReply.obj.is_valid = {TRUE}
    /\ Field(vReply.obj.leave_type, "") = ""

\* C11: a reply that is malformed, or valid with leave_type absent or empty,
\* makes ParseLeaveRequest return an error and no candidate, and the handler
\* leaves on its parse-error path, before anything is inserted.
ParseFailureIsHard ==
    (CallHandled /\ (vReply.malformed \/ CallTypeless)) =>
        /\ vRet.err # ""
        /\ vRet.resp = <<>>
        /\ vTo = "parse_error"
ParseFailureCases ==
    /\ CallHandled /\ CallTypeless
    /\ vReply.obj.leave_type = {}
    /\ IstDay(CallStart) = IstDay(vNow) /\ CallEnd.t > CallStart.t
    /\ vRet.err = "leave_type is required for valid requests"
    /\ vTo = "parse_error"

\* C12: a reply with is_valid false comes back as it was decoded, its error
\* included, untouched by the date rules, and the handler goes to a path that
\* inserts nothing.
InvalidReturnedAsParsed ==
    (CallHandled /\ ~vReply.malformed /\ vReply.obj.is_valid = {FALSE}) =>
        /\ vRet.err = "" /\ Len(vRet.resp) = 1
        /\ ~vRet.resp[1].IsValid
        /\ vRet.resp[1].Error = Field(vReply.obj.error, NoError)
        /\ vRet.resp[1].StartTime = Field(vReply.obj.start_time, ZeroTime)
        /\ vRet.resp[1].EndTime = Field(vReply.obj.end_time, ZeroTime)
        /\ vRet.resp[1].Duration = Field(vReply.obj.duration, "")
        /\ vRet.resp[1].Reason = Field(vReply.obj.reason, "")
        /\ vRet.resp[1].LeaveType = Field(vReply.obj.leave_type, "")
        /\ vTo \in {"reject", "not_a_leave"}
InvalidWithPastStart ==
    /\ CallHandled /\ ~vReply.malformed /\ vReply.obj.is_valid = {FALSE}
    /\ vReply.obj.start_time # {} /\ IstDay(CallStart) < IstDay(vNow)
    /\ vReply.obj.error = {Msg("Not a leave request", {})}
    /\ Len(vRet.resp) = 1
    /\ vRet.resp[1].Error = Msg("Not a leave request", {})
    /\ vTo = "reject"

\* the row a handler had inserted
RowOf(w) == leaves[g[w].leaveID]
\* the handler has been through leaveRepo.Create
PastCreate(w) == g[w].pc = "confirm" \/ g[w].outcome \in {"recorded", "create_error"}

\* C13 as stated: every handler that took an accepted candidate to the store
\* has a row inserted for it.
AcceptedIsPersisted ==
    \A w \in Workers : PastCreate(w) => g[w].leaveID # 0

\* C13: every handler whose Create succeeded has exactly one row, which carries
\* the candidate's duration, reason, leave type and instants and the text of
\* the event; a handler whose Create failed has none.
CreatedRowMatchesCandidate ==
    /\ Len(leaves) = Cardinality({ w \in Workers : g[w].leaveID # 0 })
    /\ \A w1, w2 \in Workers : (g[w1].leaveID # 0 /\ g[w1].leaveID = g[w2].leaveID) => w1 = w2
    /\ \A i \in DOMAIN leaves : leaves[i].ID = i
    /\ \A w \in Workers :
        /\ g[w].outcome = "create_error" => g[w].leaveID = 0
        /\ g[w].leaveID # 0 => g[w].leaveID \in DOMAIN leaves
        /\ g[w].pc = "confirm" =>
            /\ g[w].leaveID # 0
            /\ RowOf(w).Duration = g[w].response.resp[1].Duration
            /\ RowOf(w).Reason = g[w].response.resp[1].Reason
            /\ RowOf(w).LeaveType = g[w].response.resp[1].LeaveType
            /\ RowOf(w).StartTime.t = g[w].response.resp[1].StartTime.t
            /\ RowOf(w).EndTime.t = g[w].response.resp[1].EndTime.t
            /\ RowOf(w).OriginalText = g[w].ev.Text
            /\ RowOf(w).Username = g[w].userName
FullDayRowCreated ==
    \E w \in Workers :
        /\ g[w].pc = "confirm"
        /\ g[w].response.resp[1].LeaveType = "FULL_DAY"
        /\ g[w].response.resp[1].StartTime.t = At(1, 9, 0, IstOffset).t
        /\ g[w].response.resp[1].EndTime.t = At(1, 18, 0, IstOffset).t
        /\ RowOf(w).Duration = "9 hours" /\ RowOf(w).Reason = "sick"
        /\ RowOf(w).LeaveType = "FULL_DAY"
        /\ RowOf(w).OriginalText = TextOf(g[w].ev.Timestamp)

\* the intent the command handler works on
Intent == q.ret.resp[1]
\* the classifier was answered with JSON that decodes
QueryDecoded == q.pc \notin {"idle", "parse"} /\ ~q.reply.apiErr /\ ~q.reply.malformed
\* the first and the last instant of the period of a period intent: midnight
\* UTC of its two dates
PeriodLo == DaysFromCivil(Intent.StartDate[1], Intent.StartDate[2], Intent.StartDate[3]) * TicksPerDay
PeriodHi == DaysFromCivil(Intent.EndDate[1], Intent.EndDate[2], Intent.EndDate[3]) * TicksPerDay
\* the rows of a user that start within the period, bounds included
InPeriod(u) ==
    { i \in DOMAIN leaves :
        /\ leaves[i].Username = u
        /\ PeriodLo <= leaves[i].StartTime.t /\ leaves[i].StartTime.t <= PeriodHi }
\* the rows of a user that start on one of the calendar days of the period
OnPeriodDays(u) ==
    { i \in DOMAIN leaves :
        /\ leaves[i].Username = u
        /\ IstDay(leaves[i].StartTime) >= PeriodLo \div TicksPerDay
        /\ IstDay(leaves[i].StartTime) <= PeriodHi \div TicksPerDay }
\* the rows of the report's result that are about user u
StatsOf(u) == { k \in DOMAIN q.result.stats : q.result.stats[k].Username = u }

\* C14: when the classifier's reply carries a non-empty error, ParseQuery hands
\* the handler an error and no intent, and the handler logs it and returns: no
\* aggregation is run and nothing is posted.
ErrorReplyNotExecuted ==
    (QueryDecoded /\ Field(q.reply.obj.error, "") # "") =>
        /\ q.ret.resp = <<>> /\ q.ret.err # NoError
        /\ q.pc = "done" /\ q.outcome = "parse_error"
        /\ q.log = <<"Failed to parse query">>
        /\ q.called = <<>> /\ q.blocks = <<>> /\ q.posted = <<>>
ErrorReplyCase ==
    /\ QueryDecoded
    /\ q.reply.obj.error = {"Invalid query"} /\ q.reply.obj.suggestion = {}
    /\ q.reply.obj.query_type = {"period_stats"}
    /\ leaves # <<>>
    /\ q.outcome = "parse_error" /\ q.called = <<>>

\* C15: for an intent of one of the three query types (a period intent with
\* two dates that parse), exactly the aggregation named by the type is run, and
\* a period report counts, for every user, all leaves that start on a calendar
\* day from the first through the last day of the period.
DispatchRunsSelected ==
    (/\ q.pc \in {"post", "done"} /\ q.ret.err = NoError /\ Len(q.ret.resp) = 1
     /\ Intent.QueryType \in {"top_employee", "employee_stats", "period_stats"}
     /\ Intent.QueryType = "period_stats" =>
            ParseDate(Intent.StartDate).ok /\ ParseDate(Intent.EndDate).ok)
        => /\ q.called = <<Intent.QueryType>>
           /\ (Intent.QueryType = "period_stats" /\ q.result.err = NoError) =>
                \A u \in QueryUsers :
                    OnPeriodDays(u) # {} =>
                        \E k \in StatsOf(u) :
                            q.result.stats[k].LeaveCount = Cardinality(OnPeriodDays(u))

EmployeeNoDataNamesUser ==
    (/\ q.called = <<"employee_stats">>
     /\ \A i \in DOMAIN leaves : leaves[i].Username # Intent.Username
     /\ q.result.err # DbError)
        => /\ q.result.stats = <<>>
           /\ q.result.err.args = {Intent.Username}
           /\ q.result.err.text # NoRecordsError.text
           /\ q.blocks = <<HeaderBlock, ErrorBlock(q.result.err)>>
EmployeeNoDataCase ==
    /\ q.called = <<"employee_stats">>
    /\ Intent.Username = "carol" /\ leaves # <<>>
    /\ q.outcome = "posted"
    /\ Len(q.posted) = 1 /\ Len(q.posted[1]) = 2
    /\ q.posted[1][2].kind = "error" /\ q.posted[1][2].msg.args = {"carol"}

\* C18: an employee-stats query that matches no row is not handed to the
\* handler as an error and is not logged as a failed query.
ZeroRowsNotAnExecutionFailure ==
    (/\ q.called = <<"employee_stats">>
     /\ \A i \in DOMAIN leaves : leaves[i].Username # Intent.Username
     /\ q.result.err # DbError)
        => /\ q.result.err = NoError
           /\ \A n \in DOMAIN q.log : q.log[n] # "Failed to get employee stats"

\* C19: a period query that matches no row returns an empty list and no error,
\* and the handler goes on to post the report, which is the header and the
\* period line.
EmptyPeriodIsValid ==
    (/\ q.called = <<"period_stats">>
     /\ \A u \in QueryUsers : InPeriod(u) = {}
     /\ q.result.err # DbError)
        => /\ q.result.stats = <<>> /\ q.result.err = NoError
           /\ q.pc = "post" \/ (q.pc = "done" /\ q.outcome \in {"posted", "post_failed"})
           /\ Len(q.blocks) = 2
           /\ q.blocks[1] = HeaderBlock
           /\ q.blocks[2].kind = "period"
           /\ q.blocks[2].stats =
                <<[month |-> ShortMonthName[Intent.StartDate[2]], day |-> Intent.StartDate[3],
                   year |-> Intent.StartDate[1]],
                  [month |-> ShortMonthName[Intent.EndDate[2]], day |-> Intent.EndDate[3],
                   year |-> Intent.EndDate[1]]>>
           /\ q.outcome = "posted" => q.posted = <<q.blocks>>
EmptyPeriodPosted ==
    /\ q.called = <<"period_stats">>
    /\ Intent.StartDate = <<2024, 2, 10>> /\ Intent.EndDate = <<2024, 2, 11>>
    /\ leaves # <<>> /\ \A u \in QueryUsers : InPeriod(u) = {}
    /\ q.result = NoStats
    /\ q.outcome = "posted" /\ Len(q.posted) = 1 /\ Len(q.posted[1]) = 2

\* C20: the period aggregation returns one row for each user with a leave whose
\* start lies in the range, both bounds included, and no other row; the row of
\* a user counts exactly the user's leaves in the range.
PeriodGroupsExactlyRange ==
    (q.called = <<"period_stats">> /\ q.result.err = NoError) =>
        /\ \A u \in QueryUsers :
              Cardinality(StatsOf(u)) = IF InPeriod(u) # {} THEN 1 ELSE 0
        /\ \A k \in DOMAIN q.result.stats :
              /\ q.result.stats[k].Username \in QueryUsers
              /\ q.result.stats[k].LeaveCount = Cardinality(InPeriod(q.result.stats[k].Username))
PeriodBoundsCase ==
    /\ q.called = <<"period_stats">> /\ q.result.err = NoError
    /\ Intent.StartDate = <<2024, 2, 10>> /\ Intent.EndDate = <<2024, 2, 11>>
    /\ Len(leaves) = 2
    /\ leaves[1].Username = leaves[2].Username
    /\ leaves[1].StartTime.t = PeriodHi
    /\ leaves[2].StartTime.t > PeriodHi
    /\ Len(q.result.stats) = 1 /\ q.result.stats[1].LeaveCount = 1

\* an aggregation has run and has returned rows or an empty list
QueryAnswered == Len(q.called) = 1 /\ q.result.err = NoError
\* all rows of a user
RowsOf(u) == { i \in DOMAIN leaves : leaves[i].Username = u }
\* the records of the group of user u in the aggregation that has run
GroupRows(u) == IF q.called = <<"period_stats">> THEN InPeriod(u) ELSE RowsOf(u)
\* the length of a leave in hours; the leaves of the store last whole hours
HoursOfRow(i) == (leaves[i].EndTime.t - leaves[i].StartTime.t) \div TicksPerHour
RECURSIVE SumHours(_)
SumHours(S) ==
    IF S = {} THEN 0
    ELSE LET i == CHOOSE x \in S : TRUE IN HoursOfRow(i) + SumHours(S \ {i})

\* C21: the rows of the period aggregation come in descending order of leave
\* count, and the report shows them in that order.
PeriodRowsDescending ==
    (q.called = <<"period_stats">> /\ q.result.err = NoError) =>
        /\ \A k \in 1..(Len(q.result.stats) - 1) :
              q.result.stats[k].LeaveCount >= q.result.stats[k + 1].LeaveCount
        /\ Len(q.blocks) = 2 + Len(q.result.stats)
        /\ \A k \in DOMAIN q.result.stats :
              q.blocks[2 + k].kind = "stat" /\ q.blocks[2 + k].stats = <<q.result.stats[k]>>
PeriodRowsCase ==
    /\ q.called = <<"period_stats">> /\ q.result.err = NoError
    /\ Len(q.result.stats) = 2
    /\ q.result.stats[1].Username = "bob" /\ q.result.stats[1].LeaveCount = 2
    /\ q.result.stats[2].Username = "alice" /\ q.result.stats[2].LeaveCount = 1
    /\ leaves[1].Username = "alice"

\* C22: on a store with rows the top-employee aggregation returns one row, of
\* a user whose number of leaves no other user exceeds.
TopIsMaximal ==
    (q.called = <<"top_employee">> /\ leaves # <<>> /\ q.result.err = NoError) =>
        /\ Len(q.result.stats) = 1
        /\ q.result.stats[1].Username \in QueryUsers
        /\ q.result.stats[1].LeaveCount = Cardinality(RowsOf(q.result.stats[1].Username))
        /\ \A u \in QueryUsers : Cardinality(RowsOf(u)) <= q.result.stats[1].LeaveCount
TopIsMaximalCase ==
    /\ q.called = <<"top_employee">> /\ q.result.err = NoError
    /\ leaves # <<>> /\ leaves[1].Username = "alice"
    /\ Cardinality(RowsOf("alice")) = 1 /\ Cardinality(RowsOf("bob")) = 2
    /\ Len(q.result.stats) = 1 /\ q.result.stats[1].Username = "bob"

\* C23: in every aggregation the leave types of a group are listed without
\* repetition: each type of the group's records once.
TypesListedOnce ==
    QueryAnswered =>
        \A k \in DOMAIN q.result.stats :
            LET types == q.result.stats[k].LeaveTypes
            IN  /\ \A i, j \in DOMAIN types : i # j => types[i] # types[j]
                /\ { types[i] : i \in DOMAIN types } =
                     { leaves[i].LeaveType : i \in GroupRows(q.result.stats[k].Username) }

\* C24: in every aggregation the leave count of a group is the number of its
\* records and its total is the sum of their lengths (the total is kept in half
\* hours, two to the hour).
CountAndHoursMatch ==
    QueryAnswered =>
        \A k \in DOMAIN q.result.stats :
            LET rows == GroupRows(q.result.stats[k].Username)
            IN  /\ q.result.stats[k].LeaveCount = Cardinality(rows)
                /\ q.result.stats[k].TotalHours = TicksPerHour * SumHours(rows)
CountAndHoursCase ==
    /\ q.called = <<"employee_stats">> /\ q.result.err = NoError
    /\ Intent.Username = "alice"
    /\ Len(leaves) = 3 /\ RowsOf("alice") = {1, 3}
    /\ HoursOfRow(1) = 4 /\ HoursOfRow(3) = 9
    /\ Len(q.result.stats) = 1
    /\ q.result.stats[1].LeaveCount = 2 /\ q.result.stats[1].TotalHours = 26

\* C25: no step of the command handler changes the table, whatever the query
\* type and whatever the outcome.
QueryReadOnly == [][leaves' = leaves]_vars
QueryDoneOnStore ==
    /\ q.pc = "done" /\ Len(leaves) = 2
    /\ q.called = <<"employee_stats">> /\ q.result.err = DbError
    /\ q.outcome = "post_failed"

\* C26: a handler that ends on a failed interpretation call or a failed
\* insert has had a failure notice posted to the user.
FailureNoticeSent ==
    \A w \in Workers :
        g[w].outcome \in {"parse_error", "create_error"} =>
            \E n \in DOMAIN g[w].posted : g[w].posted[n].kind = "failure_notice"

\* the reasons the date rules reject with
ValidatorReasons == {PastDateError.text, TooFarError(ZeroTime).text, EndBeforeStartError.text}

\* C27: when the date rules have rejected the candidate, the handler's one
\* message is the rejection with that reason (it reaches the channel unless the
\* transport fails), no row is inserted and no confirmation is posted.
RejectionReasonSent ==
    [][\A w \in Workers :
        /\ (/\ g[w].pc = "reject" /\ g'[w].pc # "reject"
            /\ g[w].response.resp[1].Error.text \in ValidatorReasons)
              => /\ g'[w].pc = "done" /\ g'[w].outcome = "rejected"
                 /\ leaves' = leaves
                 /\ \/ g'[w].posted = <<>>
                    \/ g'[w].posted = <<[kind |-> "rejection",
                                         error |-> g[w].response.resp[1].Error, leave |-> 0]>>
        /\ g'[w].outcome = "rejected"
              => /\ g'[w].leaveID = 0
                 /\ g'[w].calls = <<"ParseLeaveRequest">>
                 /\ \A n \in DOMAIN g'[w].posted : g'[w].posted[n].kind = "rejection"]_vars
PastDateRejectionPosted ==
    \E w \in Workers :
        /\ g[w].outcome = "rejected" /\ g[w].leaveID = 0 /\ leaves = <<>>
        /\ g[w].posted = <<[kind |-> "rejection", error |-> PastDateError, leave |-> 0]>>

\* how often a call occurs in a handler's record of calls
Times(calls, name) == Cardinality({ n \in DOMAIN calls : calls[n] = name })

\* C28: a message handler calls the interpretation gateway at most once and
\* the store's Create at most once, a command handler calls the classifier at
\* most once and runs at most one aggregation, failed calls included.
NoRetry ==
    /\ \A w \in Workers :
        /\ Times(g[w].calls, "ParseLeaveRequest") <= 1
        /\ Times(g[w].calls, "Create") <= 1
    /\ q.asked <= 1
    /\ Len(q.called) <= 1
FailedCallsNotRepeated ==
    /\ g[1].pc = "done" /\ g[1].outcome = "create_error"
    /\ g[1].calls = <<"ParseLeaveRequest", "Create">>
    /\ q.pc = "done" /\ q.outcome = "stats_error"
    /\ q.asked = 1 /\ q.called = <<"period_stats">>

\* C29: a handler that waits for the interpretation service, and a command
\* handler that waits for the classifier, eventually return.
WorkersTerminate ==
    /\ (g[1].pc = "await") ~> (g[1].pc = "done")
    /\ (q.pc = "parse") ~> (q.pc = "done")

\* C30: a goroutine works only on an event that was acknowledged, and the
\* event loop can start the next goroutine whatever the earlier one is doing,
\* waiting for a service included.
LoopAcksThenSpawns ==
    /\ \A w \in Workers : g[w].pc # "idle" => g[w].acked
    /\ q.pc # "idle" => q.acked
    /\ (~crashed /\ q.pc = "idle") => ENABLED SlashCommand
    /\ (~crashed /\ g[1].pc = "idle") => ENABLED Deliver(1)
BothBlockedAtOnce ==
    /\ g[1].pc = "await" /\ g[1].acked
    /\ q.pc = "parse" /\ q.acked

\* C31: the date rules are applied in a fixed order and the first that fails
\* gives the reason: a start before today gives the past-date reason and a
\* start after today + 30 days the too-far reason, also when the end lies
\* before the start; the end-before-start reason is given only for a start
\* within today .. today + 30 days.
RulesInOrder ==
    CallValidated =>
        /\ (IstDay(CallStart) < IstDay(vNow) /\ CallEnd.t < CallStart.t)
              => CallRejected(PastDateError)
        /\ (IstDay(CallStart) > IstDay(vNow) + MaxAdvanceDays /\ CallEnd.t < CallStart.t)
              => /\ vRet.err = "" /\ Len(vRet.resp) = 1
                 /\ ~vRet.resp[1].IsValid
                 /\ vRet.resp[1].Error.text = TooFarError(ZeroTime).text
        /\ CallRejected(EndBeforeStartError)
              => /\ IstDay(CallStart) >= IstDay(vNow)
                 /\ IstDay(CallStart) <= IstDay(vNow) + MaxAdvanceDays
                 /\ CallEnd.t < CallStart.t
TooFarWinsOverEndBeforeStart ==
    /\ CallValidated
    /\ IstDay(CallStart) = IstDay(vNow) + MaxAdvanceDays + 1
    /\ IstDay(CallEnd) = IstDay(vNow) - 1
    /\ Len(vRet.resp) = 1 /\ ~vRet.resp[1].IsValid
    /\ vRet.resp[1].Error.text = TooFarError(ZeroTime).text

\* the confirmations among the messages a handler got posted
Confirmations(w) == { n \in DOMAIN g[w].posted : g[w].posted[n].kind = "confirmation" }

\* C32: a handler goes through guard, interpretation, validation, insert and
\* confirmation in that order: it calls the gateway only for a timestamp it has
\* marked, the store only with a candidate the date rules let through, and it
\* posts a confirmation only for the row its insert added; a handler whose
\* insert failed has posted no confirmation, and it is at its end.
StagesInOrder ==
    \A w \in Workers :
        /\ g[w].calls \in {<<>>, <<"ParseLeaveRequest">>, <<"ParseLeaveRequest", "Create">>}
        /\ g[w].pc \in {"idle", "check", "mark", "authTest", "userInfo", "parse"}
              => g[w].calls = <<>>
        /\ g[w].calls # <<>> => processedMsgs[g[w].ev.Timestamp]
        /\ g[w].pc \in {"create", "confirm"}
              => /\ g[w].response.err = "" /\ g[w].response.resp[1].IsValid
                 /\ g[w].response.resp[1].StartTime.t <= g[w].response.resp[1].EndTime.t
        /\ g[w].pc = "create" => g[w].calls = <<"ParseLeaveRequest">>
        /\ g[w].pc = "confirm" => g[w].calls = <<"ParseLeaveRequest", "Create">> /\ g[w].leaveID # 0
        /\ Confirmations(w) # {}
              => /\ g[w].calls = <<"ParseLeaveRequest", "Create">>
                 /\ g[w].leaveID \in DOMAIN leaves
                 /\ g[w].pc = "done" /\ g[w].outcome = "recorded"
                 /\ \A n \in Confirmations(w) : g[w].posted[n].leave = g[w].leaveID
        /\ g[w].outcome = "create_error"
              => /\ g[w].pc = "done" /\ g[w].leaveID = 0
                 /\ g[w].posted = <<>>
ConfirmedAfterInsert ==
    /\ g[1].pc = "done" /\ g[1].outcome = "recorded"
    /\ g[1].calls = <<"ParseLeaveRequest", "Create">>
    /\ Len(leaves) = 1 /\ g[1].leaveID = 1
    /\ Len(g[1].posted) = 1 /\ g[1].posted[1].kind = "confirmation" /\ g[1].posted[1].leave = 1

\* C33: two calls of ParseLeaveRequest for the same text, the same answer of
\* the service and the same reading of the clock return the same pair, error
\* and every field of the candidate included, whatever timestamps they were
\* given.
TimestampNotInResult ==
    \A w1, w2 \in Workers :
        (/\ g[w1].pc = "returned" /\ g[w2].pc = "returned"
         /\ g[w1].ev.Text = g[w2].ev.Text)
            => g[w1].response = g[w2].response
TwoTimestampsOneResult ==
    /\ g[1].pc = "returned" /\ g[2].pc = "returned"
    /\ g[1].ev.Timestamp # g[2].ev.Timestamp
    /\ IstDay(vNow) = BaseDay + 1
    /\ Len(g[1].response.resp) = 1
    /\ g[1].response.resp[1].Error.text = TooFarError(ZeroTime).text
    /\ g[2].response = g[1].response

QueryTypes == {"top_employee", "period_stats", "employee_stats"}

\* C34: a handler that was handed an intent whose query type is none of the
\* three known ones ends with the failure reported (a logged error or a notice
\* to the user) and with no report posted to the channel.
UnknownTypeFailsLoudly ==
    (/\ q.pc = "done" /\ q.ret.err = NoError /\ Len(q.ret.resp) = 1
     /\ Intent.Error = "" /\ Intent.QueryType \notin QueryTypes)
        => /\ q.posted = <<>>
           /\ q.log # <<>> \/ q.ephemeral # <<>>

\* C35: a handler whose interpretation call returned an error has made that
\* one call and nothing else: it has no row, the table is as it was, and it
\* has posted neither a confirmation nor a rejection.
ParseErrorNotApplied ==
    \A w \in Workers :
        g[w].outcome = "parse_error" =>
            /\ g[w].pc = "done"
            /\ g[w].calls = <<"ParseLeaveRequest">>
            /\ g[w].leaveID = 0
            /\ g[w].posted = <<>>
            /\ leaves = <<>>
ParseErrorReturned ==
    /\ g[1].pc = "done" /\ g[1].outcome = "parse_error"
    /\ g[1].calls = <<"ParseLeaveRequest">>
    /\ g[1].posted = <<>> /\ leaves = <<>>
    /\ q.pc = "idle"

\* the outcomes of a handler that one of its own filters has dropped
Dropped == {"bot_or_system", "own_message"}

\* C36: a handler marks the timestamp before it applies its filters: once it is
\* past the mark, dropped by a filter or not, the timestamp is in the map, a
\* dropped handler has called neither the gateway nor the store, and a handler
\* started later for the same timestamp ends at the duplicate check.
SeenBeforeFilters ==
    \A w \in Workers :
        /\ g[w].pc \in {"authTest", "userInfo", "parse", "await"}
              => processedMsgs[g[w].ev.Timestamp]
        /\ g[w].outcome \in Dropped
              => /\ processedMsgs[g[w].ev.Timestamp]
                 /\ g[w].calls = <<>> /\ g[w].posted = <<>> /\ g[w].leaveID = 0
                 /\ \A v \in Workers :
                      (g[v].ev.Timestamp = g[w].ev.Timestamp /\ g[v].late)
                          => /\ g[v].pc \in {"check", "done"}
                             /\ g[v].pc = "done" => g[v].outcome = "duplicate"
                             /\ g[v].calls = <<>>
DroppedThenDuplicate ==
    /\ g[1].pc = "done" /\ g[1].outcome = "own_message" /\ g[1].calls = <<>>
    /\ g[2].ev.Timestamp = g[1].ev.Timestamp /\ g[2].late
    /\ g[2].pc = "done" /\ g[2].outcome = "duplicate"
    /\ leaves = <<>>

DaysInMonth(y, m) ==
    IF m = 2
    THEN IF (y % 4 = 0 /\ y % 100 # 0) \/ y % 400 = 0 THEN 29 ELSE 28
    ELSE IF m \in {4, 6, 9, 11} THEN 30 ELSE 31
\* the string is present and names a day of the calendar
IsCalendarDate(s) ==
    /\ Len(s) = 3
    /\ s[2] \in 1..12
    /\ s[3] \in 1..DaysInMonth(s[1], s[2])

\* C38: a handler that was handed a period intent whose start or end date is
\* absent or is no date of the calendar returns without running an aggregation
\* and without any message: no report to the channel, no notice to the user,
\* no line of the error log.
BadPeriodDateIsSilent ==
    (/\ q.pc \notin {"idle", "parse", "period"}
     /\ q.ret.err = NoError /\ Len(q.ret.resp) = 1
     /\ Intent.QueryType = "period_stats"
     /\ ~IsCalendarDate(Intent.StartDate) \/ ~IsCalendarDate(Intent.EndDate))
        => /\ q.pc = "done" /\ q.outcome = "bad_date"
           /\ q.called = <<>>
           /\ q.posted = <<>> /\ q.ephemeral = <<>> /\ q.log = <<>>
BadEndDateCase ==
    /\ q.pc = "done" /\ q.outcome = "bad_date"
    /\ Intent.QueryType = "period_stats"
    /\ Intent.StartDate = <<2024, 2, 10>> /\ Intent.EndDate = <<2024, 2, 30>>
    /\ Len(leaves) = MaxRows
    /\ q.called = <<>> /\ q.posted = <<>> /\ q.ephemeral = <<>>

\* C39: no step of the endpoint /api/leave changes the table or the map of
\* seen timestamps, and a request that is not a POST or whose body does not
\* decode is answered at once with status 405 or 400 and a plain text, without
\* a call of the gateway.
HttpTouchesNothing ==
    [][/\ leaves' = leaves
       /\ processedMsgs' = processedMsgs
       /\ (h' # h /\ (h'.method # "POST" \/ ~h'.decodes))
             => /\ h'.pc = "idle"
                /\ h'.calls = <<>>
                /\ h'.status = IF h'.method # "POST" THEN 405 ELSE 400
                /\ h'.body.kind = "text/plain"
       /\ h'.calls \in {<<>>, <<"ParseLeaveRequest">>}]_vars
HttpAnsweredTwice ==
    /\ h.pc = "idle" /\ h.answers = <<405, 200>>
    /\ h.calls = <<"ParseLeaveRequest">>
    /\ Len(h.body.value) = 1 /\ h.body.value[1].IsValid
    /\ Len(leaves) = 1
    /\ processedMsgs[1] /\ ~processedMsgs[2]

====
